---- MODULE Spec2Model ----
(***************************************************************************)
(* Model of variamos_security: the key store (SecurityCofing.ts), the      *)
(* token codec (CreateJWT.ts, validateToken), the session validator        *)
(* (validateSession) and the three Express gates isAuthenticated,          *)
(* hasRoles and hasPermissions.                                            *)
(***************************************************************************)
EXTENDS Integers, Sequences, FiniteSets, TLC

VARIABLES env, keyStore, pc, initThrew, now, ticks, jwt, ret, req, res

vars == <<env, keyStore, pc, initThrew, now, ticks, jwt, ret, req, res>>

(***************************************************************************)
(* Bounds of the model.                                                    *)
(***************************************************************************)
\* number of clock steps a behaviour may take
MaxTicks == 2

\* Date.now() is in milliseconds, exp and iat are in seconds
MsPerSecond == 1000

\* createJwt: process.env.VARIAMOS_JWT_EXP_IN_SECONDS ?? 900
DefaultExpInSeconds == 900

\* clock increments in milliseconds: one millisecond, one short of a second,
\* a whole second
TickSteps == {1, MsPerSecond - 1, MsPerSecond}

(***************************************************************************)
(* JavaScript values.  Every optional number is a record [k, n], every     *)
(* optional string array a record [k, v], every optional string a record   *)
(* [k, s], so that undefined, null and NaN are values of their own.        *)
(***************************************************************************)
JUndef == [k |-> "undefined", n |-> 0]
JNull == [k |-> "null", n |-> 0]
JNaN == [k |-> "NaN", n |-> 0]
JNum(x) == [k |-> "number", n |-> x]

AUndef == [k |-> "undefined", v |-> <<>>]
Arr(s) == [k |-> "array", v |-> s]
\* a string where an array is expected ("roles": "admin")
NotArr(s) == [k |-> "string", v |-> <<s>>]

SUndef == [k |-> "undefined", s |-> ""]
Str(x) == [k |-> "string", s |-> x]

\* JavaScript truthiness of an optional number: undefined, null, NaN and 0
\* are falsy
Truthy(v) == v.k = "number" /\ v.n # 0

\* truthiness of an optional array / string: undefined is falsy, an array
\* (even empty) and a non-empty string are truthy
TruthyArr(a) == a.k # "undefined"

Range(s) == {s[i] : i \in 1..Len(s)}

(***************************************************************************)
(* JSON.stringify and JSON.parse, field by field: stringify drops          *)
(* undefined members and writes NaN as null; parse reads a missing member  *)
(* as undefined.                                                           *)
(***************************************************************************)
StringifyNum(v) ==
  IF v.k = "undefined" THEN [k |-> "absent", n |-> 0]
  ELSE IF v.k = "NaN" THEN [k |-> "null", n |-> 0]
  ELSE v

StringifyArr(a) == IF a.k = "undefined" THEN [k |-> "absent", v |-> <<>>] ELSE a

StringifyStr(x) == IF x.k = "undefined" THEN [k |-> "absent", s |-> ""] ELSE x

ParseNum(j) == IF j.k = "absent" THEN JUndef ELSE j

ParseArr(j) == IF j.k = "absent" THEN AUndef ELSE j

ParseStr(j) == IF j.k = "absent" THEN SUndef ELSE j

\* JSON.stringify(payload) of createJwt and of the issuing service
JsonStringify(p) ==
  [wellFormed |-> TRUE,
   sub |-> StringifyStr(p.sub), name |-> StringifyStr(p.name),
   userName |-> StringifyStr(p.userName), email |-> StringifyStr(p.email),
   roles |-> StringifyArr(p.roles), permissions |-> StringifyArr(p.permissions),
   iat |-> StringifyNum(p.iat), exp |-> StringifyNum(p.exp),
   aud |-> StringifyStr(p.aud)]

\* JSON.parse(result.payload.toString()) of a well-formed text
JsonParse(j) ==
  [sub |-> ParseStr(j.sub), name |-> ParseStr(j.name),
   userName |-> ParseStr(j.userName), email |-> ParseStr(j.email),
   roles |-> ParseArr(j.roles), permissions |-> ParseArr(j.permissions),
   iat |-> ParseNum(j.iat), exp |-> ParseNum(j.exp),
   aud |-> ParseStr(j.aud)]

\* the SessionInfo with no member set (the data of a failure response)
NoInfo ==
  [sub |-> SUndef, name |-> SUndef, userName |-> SUndef, email |-> SUndef,
   roles |-> AUndef, permissions |-> AUndef, iat |-> JUndef, exp |-> JUndef,
   aud |-> SUndef]

(***************************************************************************)
(* The key store.                                                          *)
(***************************************************************************)
PrivateKid == "private-signing-key"
PublicKid == "public-verification-key"

NoKey == [kid |-> "", pair |-> "none", private |-> FALSE]

\* the file system the key paths point into: a path holds a PEM key of a
\* key pair, holds something that is no PEM, or does not exist
NoPath == ""
PrivatePaths == {NoPath, "private.pem", "missing.pem"}
PublicPaths == {NoPath, "public.pem", "other-public.pem", "garbage.pem"}

FileExists(path) == path # "missing.pem"

\* the key pair whose PEM the file holds, "none" when it holds no PEM
PemPair(path) ==
  CASE path = "private.pem" -> "K1"
    [] path = "public.pem" -> "K1"
    [] path = "other-public.pem" -> "K2"
    [] OTHER -> "none"

\* keyStore.get(kid): the first key registered under kid, undefined if none
KeyStoreGet(ks, kid) ==
  IF \E i \in 1..Len(ks) : ks[i].kid = kid
  THEN ks[CHOOSE i \in 1..Len(ks) :
            ks[i].kid = kid /\ \A j \in 1..(i - 1) : ks[j].kid # kid]
  ELSE NoKey

getPublicKey(ks) == KeyStoreGet(ks, PublicKid)

getPrivateKey(ks) == KeyStoreGet(ks, PrivateKid)

HasKey(key) == key.pair # "none"

\* fs.readFileSync followed by keyStore.add: "ok" with the key added, or
\* "throw" when the file cannot be read or is no PEM key
LoadKey(ks, path, kid, private) ==
  IF FileExists(path) /\ PemPair(path) # "none"
  THEN [threw |-> FALSE,
        ks |-> Append(ks, [kid |-> kid, pair |-> PemPair(path), private |-> private])]
  ELSE [threw |-> TRUE, ks |-> ks]

\* initKeyStore with one try block per key: each key is loaded whether or
\* not the other one failed
InitKeyStorePerKey(ks, e) ==
  LET afterPrivate ==
        IF e.privateKeyPath # NoPath
        THEN LoadKey(ks, e.privateKeyPath, PrivateKid, TRUE)
        ELSE [threw |-> FALSE, ks |-> ks]
  IN IF e.publicKeyPath # NoPath
     THEN LoadKey(afterPrivate.ks, e.publicKeyPath, PublicKid, FALSE)
     ELSE afterPrivate

\* the body of initKeyStore's try block: the private key first, the public
\* key only when the private key's load did not throw
InitKeyStoreTry(ks, e) ==
  LET afterPrivate ==
        IF e.privateKeyPath # NoPath
        THEN LoadKey(ks, e.privateKeyPath, PrivateKid, TRUE)
        ELSE [threw |-> FALSE, ks |-> ks]
  IN IF afterPrivate.threw THEN afterPrivate
     ELSE IF e.publicKeyPath # NoPath
          THEN LoadKey(afterPrivate.ks, e.publicKeyPath, PublicKid, FALSE)
          ELSE afterPrivate

\* initKeyStore: the catch logs and swallows whatever the try block threw
initKeyStore(ks, e) ==
  [threw |-> FALSE, ks |-> InitKeyStoreTry(ks, e).ks]

(***************************************************************************)
(* Tokens.  A compact JWS is its payload text, the key pair that signed    *)
(* it and whether payload and signature still belong together; a string    *)
(* that is no compact JWS is "malformed"; the empty string is "empty".     *)
(***************************************************************************)
NoText == JsonStringify(NoInfo)

Jws(text, signer, intact) ==
  [form |-> "jws", payload |-> text, signer |-> signer, intact |-> intact]

EmptyString == [form |-> "empty", payload |-> NoText, signer |-> "none", intact |-> FALSE]

Malformed == [form |-> "malformed", payload |-> NoText, signer |-> "none", intact |-> FALSE]

\* an optional token: the value of request.cookies.authToken
TokUndef == [k |-> "undefined", t |-> EmptyString]
Tok(t) == [k |-> "string", t |-> t]

\* !token
NoToken(token) == token.k = "undefined" \/ token.t.form = "empty"

\* jose.JWS.createVerify(key).verify(token) resolves (does not throw)
Verifies(key, t) == t.form = "jws" /\ t.intact /\ t.signer = key.pair

(***************************************************************************)
(* ResponseModel<SessionInfo>: errorCode, message and data (transactionId  *)
(* and totalCount are never set by this code and stay undefined).          *)
(***************************************************************************)
NoData == [k |-> "undefined", v |-> NoInfo]
Data(info) == [k |-> "object", v |-> info]

NewResponseModel == [errorCode |-> JUndef, message |-> SUndef, data |-> NoData]

withError(r, errorCode, errorMessage) ==
  [r EXCEPT !.errorCode = JNum(errorCode), !.message = Str(errorMessage)]

withResponse(r, data) == [r EXCEPT !.data = data]

MsgLogin == "Please log in."
MsgValidation == "Error on session validation, please try again."
MsgExpired == "Your session has expired, please log in again."
MsgDenied == "Access denied, not enough permissions."
MsgInternal == "Internal server error"

(***************************************************************************)
(* IsAuthenticated.ts: isSessionExpired, validateToken, validateSession.   *)
(***************************************************************************)
\* !expirationDateInSeconds || Date.now() > expirationDateInSeconds * 1000
isSessionExpired(exp, t) == ~Truthy(exp) \/ t > exp.n * MsPerSecond

\* the key validateToken verifies with: the public key, else the private key
SelectKey(ks) ==
  IF HasKey(getPublicKey(ks)) THEN getPublicKey(ks) ELSE getPrivateKey(ks)

\* validateToken decoding the payload without verifying the signature
validateTokenDecodeOnly(token, ks) ==
  IF NoToken(token) THEN withError(NewResponseModel, 401, MsgLogin)
  ELSE IF ~HasKey(SelectKey(ks)) THEN withError(NewResponseModel, 401, MsgValidation)
  ELSE IF token.t.form = "jws" /\ token.t.payload.wellFormed
       THEN withResponse(NewResponseModel, Data(JsonParse(token.t.payload)))
       ELSE withError(NewResponseModel, 401, MsgValidation)

\* validateToken looking the key up before it looks at the token
validateTokenKeyFirst(token, ks) ==
  IF ~HasKey(SelectKey(ks)) THEN withError(NewResponseModel, 401, MsgValidation)
  ELSE IF NoToken(token) THEN withError(NewResponseModel, 401, MsgLogin)
  ELSE IF Verifies(SelectKey(ks), token.t) /\ token.t.payload.wellFormed
       THEN withResponse(NewResponseModel, Data(JsonParse(token.t.payload)))
       ELSE withError(NewResponseModel, 401, MsgValidation)

validateToken(token, ks) ==
  IF NoToken(token) THEN withError(NewResponseModel, 401, MsgLogin)
  ELSE IF ~HasKey(SelectKey(ks)) THEN withError(NewResponseModel, 401, MsgValidation)
  ELSE IF Verifies(SelectKey(ks), token.t) /\ token.t.payload.wellFormed
       THEN withResponse(NewResponseModel, Data(JsonParse(token.t.payload)))
       ELSE withError(NewResponseModel, 401, MsgValidation)

validateSession(token, ks, t) ==
  LET validationResponse == validateToken(token, ks)
  IN IF Truthy(validationResponse.errorCode) THEN validationResponse
     ELSE IF isSessionExpired(validationResponse.data.v.exp, t)
          THEN withError(NewResponseModel, 401, MsgExpired)
          ELSE validationResponse

(***************************************************************************)
(* CreateJWT.ts: createJwt.                                                *)
(***************************************************************************)
\* Number(x) of the strings the environment variable is given
NumberOfString(s) ==
  CASE s = "" -> JNum(0)
    [] s = "0" -> JNum(0)
    [] s = "1" -> JNum(1)
    [] s = "2" -> JNum(2)
    [] OTHER -> JNaN

\* Number(process.env.VARIAMOS_JWT_EXP_IN_SECONDS) || 900
expiresInSecondsOr(e) ==
  IF e.expInSeconds.k = "undefined" \/ ~Truthy(NumberOfString(e.expInSeconds.s))
  THEN JNum(DefaultExpInSeconds)
  ELSE NumberOfString(e.expInSeconds.s)

\* Number(process.env.VARIAMOS_JWT_EXP_IN_SECONDS ?? 900)
expiresInSeconds(e) ==
  IF e.expInSeconds.k = "undefined" THEN JNum(DefaultExpInSeconds)
  ELSE NumberOfString(e.expInSeconds.s)

\* a + b on JavaScript numbers
JsAdd(a, b) == IF a.k = "number" /\ b.k = "number" THEN JNum(a.n + b.n) ELSE JNaN

\* Math.floor(Date.now() / 1000)
currentDateInSeconds(t) == t \div MsPerSecond

NoUserValue ==
  [id |-> SUndef, name |-> SUndef, user |-> SUndef, email |-> SUndef,
   roles |-> AUndef, permissions |-> AUndef]

UserUndef == [k |-> "undefined", v |-> NoUserValue]
UserNull == [k |-> "null", v |-> NoUserValue]
User(u) == [k |-> "object", v |-> u]

\* the payload object createJwt builds
JwtPayload(u, aud, e, t) ==
  [sub |-> u.id, name |-> u.name, userName |-> u.user, email |-> u.email,
   roles |-> u.roles, permissions |-> u.permissions,
   iat |-> JNum(currentDateInSeconds(t)),
   exp |-> JsAdd(JNum(currentDateInSeconds(t)), expiresInSeconds(e)),
   aud |-> aud]

\* createJwt(user, aud): throws without a user or without a private key,
\* else the compact JWS of the payload signed by the private key
createJwt(user, aud, ks, e, t) ==
  IF user.k # "object"
  THEN [threw |-> TRUE, error |-> "No user information provided", token |-> EmptyString]
  ELSE IF ~HasKey(getPrivateKey(ks))
  THEN [threw |-> TRUE, error |-> "Error on jwt creation", token |-> EmptyString]
  ELSE [threw |-> FALSE, error |-> "",
        token |-> Jws(JsonStringify(JwtPayload(user.v, aud, e, t)),
                      getPrivateKey(ks).pair, TRUE)]

(***************************************************************************)
(* Mappers: sessionInfoToSessionUser.                                      *)
(***************************************************************************)
\* Object.keys(sessionInfo).length: the members the parsed payload has
KeyCount(info) ==
  Cardinality({f \in {"sub", "name", "userName", "email", "aud"} : info[f].k # "undefined"})
  + Cardinality({f \in {"roles", "permissions"} : info[f].k # "undefined"})
  + Cardinality({f \in {"iat", "exp"} : info[f].k # "undefined"})

sessionInfoToSessionUser(data) ==
  IF data.k # "object" \/ KeyCount(data.v) = 0 THEN UserNull
  ELSE User([id |-> data.v.sub, name |-> data.v.name, user |-> data.v.userName,
             email |-> data.v.email, roles |-> data.v.roles,
             permissions |-> data.v.permissions])

(***************************************************************************)
(* HasRoles.ts and HasPermissions.ts: the validation functions.  Each      *)
(* returns [threw, r]: threw when the evaluation raised a TypeError (the   *)
(* payload's roles or permissions member is no array, so it has no .some). *)
(***************************************************************************)
\* a default parameter value: roles: string[] = []
DefaultArr(a) == IF a.k = "undefined" THEN Arr(<<>>) ELSE a

\* data?.roles || []
OrEmpty(a) == IF TruthyArr(a) THEN a ELSE Arr(<<>>)

\* user.some((x) => required.includes(x)), for arrays
SomeIncluded(user, required) == \E x \in Range(user.v) : x \in Range(required.v)

Returned(r) == [threw |-> FALSE, r |-> r]
Thrown == [threw |-> TRUE, r |-> NewResponseModel]

\* validateRoles checking the roles before the validation failure
validateRolesBeforeSession(token, roles, ks, t) ==
  LET validationResponse == validateSession(token, ks, t)
      userRoles == OrEmpty(validationResponse.data.v.roles)
  IN IF userRoles.k # "array" THEN Thrown
     ELSE IF ~SomeIncluded(userRoles, roles)
          THEN Returned(withError(NewResponseModel, 403, MsgDenied))
          ELSE Returned(validationResponse)

validateRoles(token, roles, ks, t) ==
  LET validationResponse == validateSession(token, ks, t)
      userRoles == OrEmpty(validationResponse.data.v.roles)
  IN IF Truthy(validationResponse.errorCode) THEN Returned(validationResponse)
     ELSE IF userRoles.k # "array" THEN Thrown
     ELSE IF ~SomeIncluded(userRoles, roles)
          THEN Returned(withError(NewResponseModel, 403, MsgDenied))
          ELSE Returned(validationResponse)

\* validateRolesAndPermissions exempting an empty permissions list, the way
\* it exempts an empty roles list
validateRolesAndPermissionsExempt(token, permissions, roles, ks, t) ==
  LET response == withError(NewResponseModel, 403, MsgDenied)
      validationResponse == validateSession(token, ks, t)
      userRoles == OrEmpty(validationResponse.data.v.roles)
      userPermission == OrEmpty(validationResponse.data.v.permissions)
  IN IF Truthy(validationResponse.errorCode) THEN Returned(validationResponse)
     ELSE IF Len(roles.v) # 0 /\ userRoles.k # "array" THEN Thrown
     ELSE IF Len(roles.v) # 0 /\ ~SomeIncluded(userRoles, roles) THEN Returned(response)
     ELSE IF Len(permissions.v) # 0 /\ userPermission.k # "array" THEN Thrown
     ELSE IF Len(permissions.v) # 0 /\ ~SomeIncluded(userPermission, permissions)
          THEN Returned(response)
     ELSE Returned(validationResponse)

validateRolesAndPermissions(token, permissions, roles, ks, t) ==
  LET response == withError(NewResponseModel, 403, MsgDenied)
      validationResponse == validateSession(token, ks, t)
      userRoles == OrEmpty(validationResponse.data.v.roles)
      userPermission == OrEmpty(validationResponse.data.v.permissions)
  IN IF Truthy(validationResponse.errorCode) THEN Returned(validationResponse)
     ELSE IF Len(roles.v) # 0 /\ userRoles.k # "array" THEN Thrown
     ELSE IF Len(roles.v) # 0 /\ ~SomeIncluded(userRoles, roles) THEN Returned(response)
     ELSE IF userPermission.k # "array" THEN Thrown
     ELSE IF ~SomeIncluded(userPermission, permissions) THEN Returned(response)
     ELSE Returned(validationResponse)

(***************************************************************************)
(* The gates.  A request is its cookies (undefined when no cookie parser   *)
(* ran) and its user member; a gate's outcome is the status it set, the    *)
(* JSON body it wrote, how often it wrote one, how often it called next    *)
(* and the request's user member afterwards.                               *)
(***************************************************************************)
NoCookies == [present |-> FALSE, authToken |-> TokUndef]
Cookies(token) == [present |-> TRUE, authToken |-> token]

\* request.cookies.authToken: a TypeError when request.cookies is undefined
CookieToken(cookies) ==
  IF cookies.present THEN [threw |-> FALSE, token |-> cookies.authToken]
  ELSE [threw |-> TRUE, token |-> TokUndef]

\* getToken(request) of HasPermissions.ts
getToken(cookies) == CookieToken(cookies)

NoBody ==
  [errorCode |-> StringifyNum(JUndef), message |-> StringifyStr(SUndef),
   errorMessage |-> StringifyStr(SUndef), data |-> "absent"]

\* response.json(validationResponse): the JSON text of a ResponseModel
ModelBody(r) ==
  [errorCode |-> StringifyNum(r.errorCode), message |-> StringifyStr(r.message),
   errorMessage |-> StringifyStr(SUndef),
   data |-> IF r.data.k = "undefined" THEN "absent" ELSE "object"]

\* response.json({ errorMessage: "Internal server error" })
InternalErrorBody == [NoBody EXCEPT !.errorMessage = StringifyStr(Str(MsgInternal))]

Untouched(user) ==
  [status |-> 0, body |-> NoBody, sent |-> 0, nextCalls |-> 0, user |-> user]

\* response.status(validationResponse.errorCode).json(validationResponse)
Respond(o, r) ==
  [o EXCEPT !.status = r.errorCode.n, !.body = ModelBody(r), !.sent = @ + 1]

\* request.user = sessionInfoToSessionUser(validationResponse.data); next()
Forward(o, r) ==
  [o EXCEPT !.user = sessionInfoToSessionUser(r.data), !.nextCalls = @ + 1]

\* the catch block of isAuthenticated
CatchIsAuthenticated(o) ==
  [o EXCEPT !.status = 401,
            !.body = ModelBody(withError(NewResponseModel, 401, MsgValidation)),
            !.sent = @ + 1]

\* the catch block of isAuthenticated copied into the other two gates
CatchInternalAs401(o) ==
  [o EXCEPT !.status = 401,
            !.body = ModelBody(withError(NewResponseModel, 401, MsgValidation)),
            !.sent = @ + 1]

\* the catch block of hasRoles and of hasPermissions
CatchInternal(o) ==
  [o EXCEPT !.status = 500, !.body = InternalErrorBody, !.sent = @ + 1]

isAuthenticated(request, nextThrows, ks, t) ==
  LET o == Untouched(request.user)
      token == CookieToken(request.cookies)
      validationResponse == validateSession(token.token, ks, t)
  IN IF token.threw THEN CatchIsAuthenticated(o)
     ELSE IF Truthy(validationResponse.errorCode) THEN Respond(o, validationResponse)
     ELSE IF nextThrows THEN CatchIsAuthenticated(Forward(o, validationResponse))
     ELSE Forward(o, validationResponse)

\* hasRoles assigning request.user before it tests the errorCode
hasRolesAttachFirst(rolesArg, request, nextThrows, ks, t) ==
  LET o == Untouched(request.user)
      roles == DefaultArr(rolesArg)
      token == CookieToken(request.cookies)
      v == validateRoles(token.token, roles, ks, t)
      attached == [o EXCEPT !.user = sessionInfoToSessionUser(v.r.data)]
  IN IF token.threw \/ v.threw THEN CatchInternal(o)
     ELSE IF Truthy(v.r.errorCode) THEN Respond(attached, v.r)
     ELSE IF nextThrows THEN CatchInternal(Forward(o, v.r))
     ELSE Forward(o, v.r)

hasRoles(rolesArg, request, nextThrows, ks, t) ==
  LET o == Untouched(request.user)
      roles == DefaultArr(rolesArg)
      token == CookieToken(request.cookies)
      v == validateRoles(token.token, roles, ks, t)
  IN IF token.threw \/ v.threw THEN CatchInternal(o)
     ELSE IF Truthy(v.r.errorCode) THEN Respond(o, v.r)
     ELSE IF nextThrows THEN CatchInternal(Forward(o, v.r))
     ELSE Forward(o, v.r)

hasPermissions(permissionsArg, rolesArg, request, nextThrows, ks, t) ==
  LET o == Untouched(request.user)
      permissions == DefaultArr(permissionsArg)
      roles == DefaultArr(rolesArg)
      token == getToken(request.cookies)
      v == validateRolesAndPermissions(token.token, permissions, roles, ks, t)
  IN IF token.threw \/ v.threw THEN CatchInternal(o)
     ELSE IF Truthy(v.r.errorCode) THEN Respond(o, v.r)
     ELSE IF nextThrows THEN CatchInternal(Forward(o, v.r))
     ELSE Forward(o, v.r)

(***************************************************************************)
(* The inputs the operations are called with.                              *)
(***************************************************************************)
\* the payload objects the issuing service signs
ExtPayload(roles, permissions, exp) ==
  [sub |-> Str("u1"), name |-> Str("Ann"), userName |-> Str("ann"),
   email |-> Str("ann@example.org"), roles |-> roles, permissions |-> permissions,
   iat |-> JNum(0), exp |-> exp, aud |-> SUndef]

PoolRoles == {AUndef, Arr(<<"admin">>), Arr(<<"viewer">>), NotArr("admin")}
PoolPermissions == {AUndef, Arr(<<"read">>), Arr(<<"write">>)}
PoolExp == {JUndef, JNum(1)}

AdminText == JsonStringify(ExtPayload(Arr(<<"admin">>), Arr(<<"read">>), JNum(1)))

\* a text JSON.parse throws on
GarbageText == [NoText EXCEPT !.wellFormed = FALSE]

ExternalTokens ==
  {Jws(JsonStringify(ExtPayload(r, p, e)), "K1", TRUE) :
     r \in PoolRoles, p \in PoolPermissions, e \in PoolExp}
  \cup {Jws(JsonStringify(ExtPayload(Arr(<<"admin">>), NotArr("read"), JNum(1))), "K1", TRUE),
        Jws(AdminText, "K2", TRUE),
        Jws(AdminText, "K1", FALSE),
        Jws(GarbageText, "K1", TRUE),
        Malformed}

\* the values request.cookies.authToken takes
CookieTokens == {TokUndef, Tok(EmptyString)} \cup {Tok(t) : t \in ExternalTokens}

RequestCookies == {NoCookies} \cup {Cookies(token) : token \in CookieTokens}

\* the arguments the gate factories are given (undefined: the default)
RoleArgs == {AUndef, Arr(<<>>), Arr(<<"admin">>), Arr(<<"admin", "editor">>)}
PermissionArgs == {AUndef, Arr(<<>>), Arr(<<"read">>)}

\* the subjects createJwt is given
Users ==
  {[id |-> Str("u1"), name |-> Str("Ann"), user |-> Str("ann"),
    email |-> Str("ann@example.org"),
    roles |-> Arr(<<"admin">>), permissions |-> Arr(<<"read", "write">>)],
   [id |-> Str("u2"), name |-> Str("Bob"), user |-> Str("bob"),
    email |-> Str("bob@example.org"),
    roles |-> AUndef, permissions |-> AUndef],
   [id |-> Str("u3"), name |-> Str("Cy"), user |-> Str("cy"),
    email |-> Str("cy@example.org"),
    roles |-> Arr(<<>>), permissions |-> Arr(<<"read">>)]}

UserArgs == {UserUndef} \cup {User(u) : u \in Users}
AudArgs == {SUndef, Str("variamos")}

\* the values of VARIAMOS_JWT_EXP_IN_SECONDS
ExpSettings == {SUndef, Str("0"), Str("1"), Str("abc")}

(***************************************************************************)
(* The state machine.                                                      *)
(***************************************************************************)
NoReq ==
  [gate |-> "none", roles |-> AUndef, permissions |-> AUndef,
   cookies |-> NoCookies, nextThrows |-> FALSE, user |-> UserUndef]

NoRes == Untouched(UserUndef)

NoRet == [fn |-> "none", token |-> TokUndef, r |-> NewResponseModel]

NoJwt ==
  [called |-> FALSE, user |-> UserUndef, aud |-> SUndef,
   threw |-> FALSE, error |-> "", token |-> EmptyString]

InitWith(settings) ==
  /\ env \in [privateKeyPath : PrivatePaths, publicKeyPath : PublicPaths,
              expInSeconds : settings]
  /\ keyStore = <<>>
  /\ pc = "boot"
  /\ initThrew = FALSE
  /\ now = 0
  /\ ticks = 0
  /\ jwt = NoJwt
  /\ ret = NoRet
  /\ req = NoReq
  /\ res = NoRes

\* the process starts with the token lifetime left unconfigured
Init == InitWith({SUndef})

\* process start: await initKeyStore()
InitKeyStore ==
  /\ pc = "boot"
  /\ keyStore' = initKeyStore(keyStore, env).ks
  /\ initThrew' = initKeyStore(keyStore, env).threw
  /\ pc' = "ready"
  /\ UNCHANGED <<env, now, ticks, jwt, ret, req, res>>

\* the clock read by Date.now() advances between two calls
Tick ==
  /\ pc = "ready"
  /\ ticks < MaxTicks
  /\ \E d \in TickSteps : now' = now + d
  /\ ticks' = ticks + 1
  /\ UNCHANGED <<env, keyStore, pc, initThrew, jwt, ret, req, res>>

Request(gate, rolesArg, permissionsArg, cookies, nextThrows) ==
  [gate |-> gate, roles |-> rolesArg, permissions |-> permissionsArg,
   cookies |-> cookies, nextThrows |-> nextThrows, user |-> UserUndef]

\* request.user as the middleware before the gate left it: undefined, or
\* the user an earlier gate of the chain attached
PriorUsers == {UserUndef, User(CHOOSE u \in Users : u.id = Str("u2"))}

IsAuthenticated ==
  /\ pc = "ready"
  /\ \E cookies \in RequestCookies, nextThrows \in BOOLEAN, user \in PriorUsers :
       /\ req' = [Request("isAuthenticated", AUndef, AUndef, cookies, nextThrows)
                    EXCEPT !.user = user]
       /\ res' = isAuthenticated(req', nextThrows, keyStore, now)
  /\ pc' = "done"
  /\ UNCHANGED <<env, keyStore, initThrew, now, ticks, jwt, ret>>

HasRoles ==
  /\ pc = "ready"
  /\ \E rolesArg \in RoleArgs, cookies \in RequestCookies, nextThrows \in BOOLEAN,
        user \in PriorUsers :
       /\ req' = [Request("hasRoles", rolesArg, AUndef, cookies, nextThrows)
                    EXCEPT !.user = user]
       /\ res' = hasRoles(rolesArg, req', nextThrows, keyStore, now)
  /\ pc' = "done"
  /\ UNCHANGED <<env, keyStore, initThrew, now, ticks, jwt, ret>>

HasPermissions ==
  /\ pc = "ready"
  /\ \E permissionsArg \in PermissionArgs, rolesArg \in RoleArgs,
        cookies \in RequestCookies, nextThrows \in BOOLEAN, user \in PriorUsers :
       /\ req' = [Request("hasPermissions", rolesArg, permissionsArg, cookies, nextThrows)
                    EXCEPT !.user = user]
       /\ res' = hasPermissions(permissionsArg, rolesArg, req', nextThrows, keyStore, now)
  /\ pc' = "done"
  /\ UNCHANGED <<env, keyStore, initThrew, now, ticks, jwt, ret>>

\* a direct call of validateToken
ValidateToken ==
  /\ pc = "ready"
  /\ \E token \in CookieTokens :
       ret' = [fn |-> "validateToken", token |-> token,
               r |-> validateToken(token, keyStore)]
  /\ pc' = "done"
  /\ UNCHANGED <<env, keyStore, initThrew, now, ticks, jwt, req, res>>

\* a direct call of validateSession
ValidateSession ==
  /\ pc = "ready"
  /\ \E token \in CookieTokens :
       ret' = [fn |-> "validateSession", token |-> token,
               r |-> validateSession(token, keyStore, now)]
  /\ pc' = "done"
  /\ UNCHANGED <<env, keyStore, initThrew, now, ticks, jwt, req, res>>

\* a call of createJwt; the token stays with the client
CreateJwt ==
  /\ pc = "ready"
  /\ \E user \in UserArgs, aud \in AudArgs :
       LET c == createJwt(user, aud, keyStore, env, now)
       IN jwt' = [called |-> TRUE, user |-> user, aud |-> aud,
                  threw |-> c.threw, error |-> c.error, token |-> c.token]
  /\ UNCHANGED <<env, keyStore, pc, initThrew, now, ticks, ret, req, res>>

\* the round trip of the last issued token only
VerifyJwt ==
  /\ pc = "ready"
  /\ jwt.called /\ ~jwt.threw
  /\ \/ ret' = [fn |-> "validateToken", token |-> Tok(jwt.token),
                r |-> validateToken(Tok(jwt.token), keyStore)]
     \/ ret' = [fn |-> "validateSession", token |-> Tok(jwt.token),
                r |-> validateSession(Tok(jwt.token), keyStore, now)]
  /\ pc' = "done"
  /\ UNCHANGED <<env, keyStore, initThrew, now, ticks, jwt, req, res>>

\* the call has settled and the per-request values are dropped
Continue ==
  /\ pc = "done"
  /\ pc' = "ready"
  /\ ret' = NoRet
  /\ req' = NoReq
  /\ res' = NoRes
  /\ UNCHANGED <<env, keyStore, initThrew, now, ticks, jwt>>

\* the gates and the validator of a running service
Next ==
  \/ InitKeyStore
  \/ Tick
  \/ IsAuthenticated
  \/ HasRoles
  \/ HasPermissions
  \/ ValidateToken
  \/ ValidateSession
  \/ Continue

Spec == Init /\ [][Next]_vars

\* the token codec: tokens issued by createJwt and verified again
InitCodec == InitWith(ExpSettings)

NextCodec ==
  \/ InitKeyStore
  \/ Tick
  \/ CreateJwt
  \/ VerifyJwt
  \/ Continue

SpecCodec == InitCodec /\ [][NextCodec]_vars

TypeOK ==
  /\ pc \in {"boot", "ready", "done"}
  /\ now \in Nat
  /\ ticks \in 0..MaxTicks
  /\ res.status \in {0, 401, 403, 500}

(***************************************************************************)
(* Vocabulary of the properties.                                           *)
(***************************************************************************)
\* the gate has run on a request that has a cookies object
GateRan(gate) == pc = "done" /\ req.gate = gate /\ req.cookies.present

\* what validateSession says about the request's token at the time of the call
Session == validateSession(req.cookies.authToken, keyStore, now)

\* the request's token verified and was unexpired
Validated == ~Truthy(Session.errorCode)

\* the set of strings of an optional array
SetOf(a) == IF a.k = "array" THEN Range(a.v) ELSE {}

\* the payload's roles and permissions members are arrays or absent
WellTyped(info) == info.roles.k # "string" /\ info.permissions.k # "string"

Forwarded == res.nextCalls = 1

\* the gate wrote status st with the failure body {errorCode: st, message: msg}
Responded(st, msg) ==
  /\ res.sent = 1
  /\ res.status = st
  /\ res.body.errorCode = [k |-> "number", n |-> st]
  /\ res.body.message = [k |-> "string", s |-> msg]
  /\ res.body.errorMessage.k = "absent"
  /\ res.body.data = "absent"

\* the token's signature verifies against the key validateToken selects
SignatureOk(token) ==
  /\ token.k = "string"
  /\ HasKey(SelectKey(keyStore))
  /\ Verifies(SelectKey(keyStore), token.t)

(***************************************************************************)
(* C1: hasRoles with an empty (or omitted) required-roles list forwards    *)
(* every request whose token verifies and is unexpired: it calls next and  *)
(* writes no response, whatever the user's roles are.                      *)
(***************************************************************************)
C1_EmptyRolesAlwaysPass ==
  (GateRan("hasRoles") /\ SetOf(DefaultArr(req.roles)) = {} /\ Validated
     /\ ~req.nextThrows)
    => (Forwarded /\ res.sent = 0)

(***************************************************************************)
(* C2: hasPermissions forwards the request if and only if the token        *)
(* validates, the required roles are empty or intersect the user's roles,  *)
(* and the user's permissions intersect the required permissions; a        *)
(* validated token (of typed claims) whose permissions do not intersect    *)
(* the required ones, in particular any such token when the required list  *)
(* is empty, is answered 403 and not forwarded.                            *)
(***************************************************************************)
C2_RolesPass ==
  \/ SetOf(DefaultArr(req.roles)) = {}
  \/ SetOf(Session.data.v.roles) \cap SetOf(req.roles) # {}

C2_PermissionsPass ==
  SetOf(Session.data.v.permissions) \cap SetOf(DefaultArr(req.permissions)) # {}

C2_DecisionRule ==
  GateRan("hasPermissions") =>
    /\ Forwarded <=> (Validated /\ C2_RolesPass /\ C2_PermissionsPass)
    /\ (Validated /\ WellTyped(Session.data.v) /\ ~C2_PermissionsPass)
         => (Responded(403, MsgDenied) /\ ~Forwarded)

C2_Witness ==
  /\ GateRan("hasPermissions")
  /\ Validated
  /\ SetOf(Session.data.v.roles) \cap SetOf(req.roles) # {}
  /\ SetOf(req.permissions) # {}
  /\ ~C2_PermissionsPass
  /\ res.status = 403

(***************************************************************************)
(* C3: validateSession answers 401 "Your session has expired, please log   *)
(* in again." for every verifying token whose exp is absent or has         *)
(* exp <= now, the instant now = exp included, and returns the claims      *)
(* only when exp is present and strictly in the future.                    *)
(***************************************************************************)
C3_Expired(exp) == exp.k # "number" \/ exp.n * MsPerSecond <= now

C3_ExpiredAtOrAfterExp ==
  (pc = "done" /\ ret.fn = "validateSession" /\ SignatureOk(ret.token)
     /\ ret.token.t.payload.wellFormed)
    => IF C3_Expired(ret.token.t.payload.exp)
       THEN /\ ret.r.errorCode = [k |-> "number", n |-> 401]
            /\ ret.r.message = [k |-> "string", s |-> MsgExpired]
       ELSE ret.r.errorCode.k = "undefined" /\ ret.r.data.k = "object"

(***************************************************************************)
(* C4: a token whose signature does not verify against the selected key    *)
(* makes validateToken return 401 "Error on session validation, please     *)
(* try again." with no data, and makes each of the three gates answer 401  *)
(* with that message without forwarding the request.                       *)
(***************************************************************************)
C4_BadSignature(token) == token.k = "string" /\ token.t.form # "empty" /\ ~SignatureOk(token)

C4_UnverifiedRejected ==
  /\ (pc = "done" /\ ret.fn = "validateToken" /\ C4_BadSignature(ret.token))
       => /\ ret.r.errorCode = [k |-> "number", n |-> 401]
          /\ ret.r.message = [k |-> "string", s |-> MsgValidation]
          /\ ret.r.data.k = "undefined"
  /\ \A gate \in {"isAuthenticated", "hasRoles", "hasPermissions"} :
       (GateRan(gate) /\ C4_BadSignature(req.cookies.authToken))
         => (Responded(401, MsgValidation) /\ ~Forwarded /\ res.user = req.user)

C4_Witness ==
  /\ GateRan("hasPermissions")
  /\ req.cookies.authToken.k = "string"
  /\ req.cookies.authToken.t.form = "jws"
  /\ req.cookies.authToken.t.intact
  /\ HasKey(SelectKey(keyStore))
  /\ req.cookies.authToken.t.signer # SelectKey(keyStore).pair
  /\ res.status = 401

(***************************************************************************)
(* C5: in hasRoles and hasPermissions a token that fails validateSession   *)
(* is answered with that failure unchanged (401 and its message) whatever  *)
(* roles and permissions are required; 403 is answered only for a token    *)
(* that validated; and hasRoles with a non-empty required list answers     *)
(* 403 exactly when the validated user's roles do not intersect it.        *)
(***************************************************************************)
C5_AuthenticationFirst ==
  /\ \A gate \in {"hasRoles", "hasPermissions"} :
       GateRan(gate) =>
         /\ ~Validated => (Responded(401, Session.message.s) /\ ~Forwarded)
         /\ res.status = 403 => Validated
  /\ (GateRan("hasRoles") /\ SetOf(req.roles) # {} /\ Validated
        /\ WellTyped(Session.data.v))
       => (res.status = 403
             <=> SetOf(Session.data.v.roles) \cap SetOf(req.roles) = {})

C5_Witness ==
  /\ GateRan("hasRoles")
  /\ SignatureOk(req.cookies.authToken)
  /\ ~Validated
  /\ SetOf(req.roles) # {}
  /\ SetOf(JsonParse(req.cookies.authToken.t.payload).roles) \cap SetOf(req.roles) = {}
  /\ res.status = 401
  /\ res.body.message.s = MsgExpired

(***************************************************************************)
(* C6: a token issued by createJwt for a subject verifies against          *)
(* matching key material, and the claims validateToken returns carry the   *)
(* subject's id, roles and permissions and exp = iat + the configured      *)
(* lifetime (900 when unconfigured); validateSession succeeds on it while  *)
(* now is before exp.                                                      *)
(***************************************************************************)
\* the key store verifies with the key pair it signs with
C6_Matching ==
  \/ ~HasKey(getPublicKey(keyStore))
  \/ getPublicKey(keyStore).pair = getPrivateKey(keyStore).pair

\* the configured lifetime in seconds, -1 when the setting is no number
C6_Lifetime ==
  CASE env.expInSeconds.k = "undefined" -> 900
    [] env.expInSeconds.s = "0" -> 0
    [] env.expInSeconds.s = "1" -> 1
    [] OTHER -> -1

C6_Issued ==
  /\ pc = "done"
  /\ jwt.called /\ ~jwt.threw
  /\ ret.token = Tok(jwt.token)
  /\ C6_Matching

C6_SubjectClaims ==
  /\ ret.r.errorCode.k = "undefined"
  /\ ret.r.data.k = "object"
  /\ ret.r.data.v.sub = jwt.user.v.id
  /\ ret.r.data.v.roles = jwt.user.v.roles
  /\ ret.r.data.v.permissions = jwt.user.v.permissions
  /\ ret.r.data.v.iat.k = "number"
  /\ C6_Lifetime >= 0 =>
       ret.r.data.v.exp = [k |-> "number", n |-> ret.r.data.v.iat.n + C6_Lifetime]

C6_RoundTrip ==
  /\ (C6_Issued /\ ret.fn = "validateToken") => C6_SubjectClaims
  /\ (C6_Issued /\ ret.fn = "validateSession" /\ C6_Lifetime >= 0
        /\ now < (jwt.token.payload.iat.n + C6_Lifetime) * MsPerSecond)
       => C6_SubjectClaims

C6_Witness ==
  /\ C6_Issued
  /\ ret.fn = "validateSession"
  /\ ticks > 0
  /\ HasKey(getPublicKey(keyStore))
  /\ jwt.user.v.roles.k = "undefined"
  /\ ret.r.errorCode.k = "undefined"
  /\ ret.r.data.v.exp = [k |-> "number", n |-> 900]

(***************************************************************************)
(* C7: initKeyStore is best-effort per key: a key whose file loads is      *)
(* registered even when the other key's read or registration fails, in     *)
(* both directions, and initKeyStore never throws.                         *)
(***************************************************************************)
C7_Loadable(path) == path \in {"private.pem", "public.pem", "other-public.pem"}

C8_IllTyped ==
  /\ req.cookies.present
  /\ Validated
  /\ \/ req.gate = "hasRoles" /\ Session.data.v.roles.k = "string"
     \/ /\ req.gate = "hasPermissions"
        /\ \/ SetOf(req.roles) # {} /\ Session.data.v.roles.k = "string"
           \/ C2_RolesPass /\ Session.data.v.permissions.k = "string"

C8_Raised ==
  /\ pc = "done"
  /\ req.gate # "none"
  /\ \/ ~req.cookies.present
     \/ req.nextThrows /\ res.nextCalls = 1
     \/ C8_IllTyped

C9_FailureEnvelope ==
  (pc = "done" /\ res.sent > 0) =>
    /\ res.body.errorCode = [k |-> "number", n |-> res.status]
    /\ res.body.message.k = "string"

C11_ExactlyOneTerminal ==
  (pc = "done" /\ req.gate # "none") =>
    \/ res.nextCalls = 1 /\ res.sent = 0
    \/ res.nextCalls = 0 /\ res.sent = 1

(***************************************************************************)
(* C12: a gate attaches the session user exactly on success: when it       *)
(* forwards, request.user is the non-null projection of the verified,      *)
(* unexpired claims (id = sub, name, user = userName, email, roles,        *)
(* permissions); when it answers a failure of the validation (401, 403 or  *)
(* 500) instead of forwarding, request.user is left as it was.             *)
(***************************************************************************)
C12_Projection ==
  [k |-> "object",
   v |-> [id |-> Session.data.v.sub, name |-> Session.data.v.name,
          user |-> Session.data.v.userName, email |-> Session.data.v.email,
          roles |-> Session.data.v.roles,
          permissions |-> Session.data.v.permissions]]

C12_UserAttachedOnSuccess ==
  (pc = "done" /\ req.gate # "none") =>
    /\ Forwarded => (req.cookies.present /\ Validated /\ res.user = C12_Projection)
    /\ (res.sent = 1 /\ ~Forwarded) => res.user = req.user

C12_Witness ==
  /\ GateRan("hasRoles")
  /\ req.roles = [k |-> "array", v |-> <<"admin", "editor">>]
  /\ Session.data.v.roles = [k |-> "array", v |-> <<"admin">>]
  /\ req.user.k = "object"
  /\ Forwarded
  /\ res.sent = 0
  /\ "admin" \in SetOf(res.user.v.roles)
  /\ res.user # req.user

====
